---- MODULE Spec2Model ----
(***************************************************************************)
(* A model of flightrecommender.py: the segmented flight fetcher with its  *)
(* hour-keyed cache, the request routines with their status handling, the  *)
(* metadata and weather resolvers, the filters, the scoring functions and  *)
(* the sorted report.                                                       *)
(*                                                                          *)
(* Conventions.  A Python str is a sequence of one-character strings       *)
(* (<<"E","D">> is 'ED'); None is the one-element sequence <<"None">>,     *)
(* which is no str since "None" is not a character.  A datetime is a       *)
(* number of ticks, TicksPerSec ticks to the second, so that a datetime    *)
(* can carry a fraction of a second as Python's does.  A score is an       *)
(* integer number of 1/ScoreDen points (floating-point rounding is not     *)
(* modelled).                                                               *)
(***************************************************************************)
EXTENDS Integers, Sequences, FiniteSets, TLC

\* ------------------------------------------------------------ constants
\* The segment length and cache alignment, in seconds (lines 53, 76-78).
Hour == 3600
\* The expiry of a memoised weather report, in seconds (line 195).
MetarExpire == 3600

\* ------------------------------------------------------------ bounds
\* Hours spanned by the instants a fetcher call may be given.
MaxHours == 2
\* Ticks of a datetime per second.
TicksPerSec == 2
\* 503 answers the environment gives to one request before another status.
MaxRetries == 1
\* Fetcher calls in one behaviour of SpecFetch.
MaxCalls == 2
\* Flights the flight source knows in one behaviour of Spec.
MaxFlights == 2

VARIABLES
  conf,       \* the configuration (conf, line 265)
  world,      \* the flights the flight source knows (environment)
  time_now,   \* datetime.now() of the run, in ticks (line 268)
  begin,      \* opensky_get_flights' begin, in ticks
  end,        \* opensky_get_flights' end, in ticks
  pc,         \* the position of the run
  steps,      \* the boundaries of the segments (line 75)
  seg,        \* index into zip(steps, steps[1:]) (line 83)
  flights,    \* the flight list
  cache,      \* the flight-segment entries of the cache: key -> list
  acCache,    \* the memoised results of opensky_get_aircraft
  wxCache,    \* the memoised results of aviationweather_get_metar
  aircraft,   \* ac of get_aircraft_from_flights, then aircraft (line 279)
  ai,         \* index of the loop at line 128
  icaos,      \* icaos (line 286)
  mi,         \* index of the loop at line 215
  metar,      \* metar (lines 214, 287)
  order,      \* sorted(flights, ...) (line 307)
  ri,         \* index of the loop at line 307
  report,     \* the lines printed so far (line 322)
  r_status,   \* r.status_code of the last GET (0 before the first)
  tries,      \* GETs issued for the request in progress
  err,        \* the exception that ended the run, "none" if none
  where,      \* the function that raised it, "" if none
  calls,      \* history: the calls of request_json / request_xml
  lookups,    \* history: the calls of opensky_get_aircraft
  written,    \* history: the segment cache writes [key, begin, end, value]
  cache0,     \* history: DOMAIN cache when the fetcher was called
  served,     \* history: the segments served from the cache in this call
  inits,      \* history: per flight, how often its score was initialised
  ncalls      \* history: fetcher calls so far

vars == <<conf, world, time_now, begin, end, pc, steps, seg, flights, cache,
          acCache, wxCache, aircraft, ai, icaos, mi, metar, order, ri,
          report, r_status, tries, err, where, calls, lookups, written,
          cache0, served, inits, ncalls>>

\* ------------------------------------------------------------ values
None == <<"None">>

IsNone(x) == x = None

\* The empty dict.
EmptyDict == [k \in {} |-> 0]

\* d[k] = v
DictSet(d, k, v) == (k :> v) @@ d

\* One entry of the flight source's answer (spec section 6).
FlightRecord(i, c, d, a, fs, ls) ==
  [icao24 |-> i, callsign |-> c, estDepartureAirport |-> d,
   estArrivalAirport |-> a, firstSeen |-> fs, lastSeen |-> ls]

\* s.startswith(p)
startswith(s, p) == Len(p) <= Len(s) /\ SubSeq(s, 1, Len(p)) = p

\* int(d.timestamp()) of a datetime d at or after the epoch
timestamp_int(d) == d \div TicksPerSec

\* Function fn raises exc, which nothing catches: the run ends.
Raise(exc, fn) == pc' = "crashed" /\ err' = exc /\ where' = fn

\* @cache.memoize(): the result v of a call with argument k is stored,
\* whatever it is.
memoize_store_skip_empty(c, k, v) ==
  IF v.type = "list" THEN c ELSE DictSet(c, k, v)

memoize_store(c, k, v) == DictSet(c, k, v)

\* @cache.memoize(expire=ttl): the result is stored with the time, in
\* seconds, at which it expires.
memoize_store_expire(c, k, v, now, ttl) ==
  DictSet(c, k, [val |-> v, expire_time |-> now + ttl])

\* ------------------------------------------------------------ strings
Digits == <<"0", "1", "2", "3", "4", "5", "6", "7", "8", "9">>

UpperCase == <<"A", "B", "C", "D", "E", "F", "G", "H", "I", "J", "K", "L", "M",
               "N", "O", "P", "Q", "R", "S", "T", "U", "V", "W", "X", "Y", "Z">>

LowerCase == <<"a", "b", "c", "d", "e", "f", "g", "h", "i", "j", "k", "l", "m",
               "n", "o", "p", "q", "r", "s", "t", "u", "v", "w", "x", "y", "z">>

\* The characters in code point order ('-' and '.' come before the digits).
CodePoints == <<"-", ".">> \o Digits \o UpperCase \o LowerCase

ord(c) == CHOOSE i \in 1..Len(CodePoints) : CodePoints[i] = c

\* a < b on str
RECURSIVE str_lt(_, _)
str_lt(a, b) ==
  IF b = <<>> THEN FALSE
  ELSE IF a = <<>> THEN TRUE
  ELSE IF a[1] # b[1] THEN ord(a[1]) < ord(b[1])
  ELSE str_lt(Tail(a), Tail(b))

\* c.upper() of one character
upper_char(c) ==
  IF \E i \in 1..Len(LowerCase) : LowerCase[i] = c
  THEN UpperCase[CHOOSE i \in 1..Len(LowerCase) : LowerCase[i] = c]
  ELSE c

\* re.sub(r'[^A-Z0-9]', '', s.upper()) (line 166)
normalize_registration(s) ==
  LET up == [i \in 1..Len(s) |-> upper_char(s[i])]
      Keep(c) == \E i \in 1..Len(UpperCase \o Digits) : (UpperCase \o Digits)[i] = c
  IN  SelectSeq(up, Keep)

\* x in lst, for a list lst
in_list(x, lst) == \E i \in 1..Len(lst) : lst[i] = x

\* ------------------------------------------------------------ scores
\* Scores and the numbers of the rank configuration are fixed-point:
\* ScoreDen units to the point.
ScoreDen == 2 * 60

Points(n) == n * ScoreDen

\* int(x) of a score: truncation toward zero
int_trunc(x) == IF x >= 0 THEN x \div ScoreDen ELSE -((-x) \div ScoreDen)

\* ------------------------------------------------------------ requests
\* The status codes the environment answers with.
Statuses == {200, 404, 503, 500}

\* request_json after a GET answered `status`: "retry" is another turn of
\* the while loop, "empty" is return [], "raise" the RuntimeError, "body"
\* the parsed text.  (`is not 200` is `!= 200` for the interned small ints.)
request_json_bad(status) ==
  IF status = 503 THEN "retry"
  ELSE IF status = 404 THEN "raise"
  ELSE IF status # 200 THEN "raise"
  ELSE "body"

request_json(status) ==
  IF status = 503 THEN "retry"
  ELSE IF status = 404 THEN "empty"
  ELSE IF status # 200 THEN "raise"
  ELSE "body"

\* request_xml, the same status handling
request_xml(status) ==
  IF status = 503 THEN "retry"
  ELSE IF status = 404 THEN "empty"
  ELSE IF status # 200 THEN "raise"
  ELSE "body"

\* ------------------------------------------------------------ fetcher
\* The flight source's 200 answer for [s, e): a fixed function of the
\* interval, the flights last seen in it.
FlightSource(w, s, e) ==
  LET In(f) == s <= f.lastSeen /\ f.lastSeen < e
  IN  SelectSeq(w, In)

\* cachable (line 53)
cachable(begin_unix, end_unix) ==
  (begin_unix % Hour) = 0 /\ (end_unix % Hour) = 0

\* `cachable and begin_unix in cache` (line 55)
cache_hit_never(c, begin_unix, end_unix) == FALSE

cache_hit(c, begin_unix, end_unix) ==
  cachable(begin_unix, end_unix) /\ begin_unix \in DOMAIN c

\* The while loop of opensky_get_flights (lines 76-80).
RECURSIVE split_steps(_, _)
split_steps(st, end_unix) ==
  IF (end_unix - st[Len(st)]) > Hour
  THEN LET next_step == st[Len(st)] + Hour
       IN  split_steps(Append(st, next_step - (next_step % Hour)), end_unix)
  ELSE Append(st, end_unix)

\* steps (lines 74-80)
opensky_steps(b, e) == split_steps(<<timestamp_int(b)>>, timestamp_int(e))

\* The position after segment number s of st: the next turn of the loop at
\* line 83, or the return at line 85.
AfterSegment(st, s) == IF s + 1 < Len(st) THEN "segment" ELSE "fetched"

\* opensky_get_flights up to its loop (lines 74-82).
EnterFetcher(b, e) ==
  /\ begin' = b
  /\ end' = e
  /\ steps' = opensky_steps(b, e)
  /\ seg' = 1
  /\ flights' = <<>>
  /\ calls' = <<>>
  /\ served' = <<>>
  /\ cache0' = DOMAIN cache
  /\ ncalls' = ncalls + 1
  /\ pc' = "segment"

\* opensky_get_flights_segment up to its return or its request (lines
\* 52-63), for the pair of the loop at line 83.
FetchSegment ==
  /\ pc = "segment"
  /\ LET b == steps[seg]
         e == steps[seg + 1]
     IN  IF cache_hit(cache, b, e)
         THEN /\ flights' = flights \o cache[b]
              /\ served' = Append(served, <<b, e>>)
              /\ seg' = seg + 1
              /\ pc' = AfterSegment(steps, seg)
              /\ UNCHANGED <<calls, tries>>
         ELSE /\ calls' = Append(calls, [src |-> "flights", arg |-> <<b, e>>])
              /\ tries' = 0
              /\ pc' = "get_flights"
              /\ UNCHANGED <<flights, served, seg>>
  /\ UNCHANGED <<conf, world, time_now, begin, end, steps, cache, acCache,
                 wxCache, aircraft, ai, icaos, mi, metar, order, ri, report,
                 r_status, err, where, lookups, written, cache0, inits, ncalls>>

\* One GET of request_json for the flight source and, when it returns, the
\* rest of opensky_get_flights_segment (lines 38-48, 64-69, 84).
FlightsResponse ==
  /\ pc = "get_flights"
  /\ \E status \in Statuses :
       LET b == steps[seg]
           e == steps[seg + 1]
           out == request_json(status)
           f == IF out = "body" THEN FlightSource(world, b, e) ELSE <<>>
       IN  /\ r_status' = status
           /\ tries' = tries + 1
           /\ CASE out = "retry" ->
                     /\ tries < MaxRetries
                     /\ UNCHANGED <<pc, err, where, flights, cache, written, seg>>
                [] out = "raise" ->
                     /\ Raise("RuntimeError", "request_json")
                     /\ UNCHANGED <<flights, cache, written, seg>>
                [] OTHER ->
                     /\ IF cachable(b, e)
                        THEN /\ cache' = DictSet(cache, b, f)
                             /\ written' = Append(written,
                                  [key |-> b, begin |-> b, end |-> e, value |-> f])
                        ELSE UNCHANGED <<cache, written>>
                     /\ flights' = flights \o f
                     /\ seg' = seg + 1
                     /\ pc' = AfterSegment(steps, seg)
                     /\ UNCHANGED <<err, where>>
  /\ UNCHANGED <<conf, world, time_now, begin, end, steps, acCache, wxCache,
                 aircraft, ai, icaos, mi, metar, order, ri, report, calls,
                 lookups, cache0, served, inits, ncalls>>

\* ------------------------------------------------------------ environment
\* The configurations of Spec.  A section that is absent has on = FALSE.
NoList == [on |-> FALSE, v |-> <<>>]

ConfNone ==
  [interval |-> Hour * TicksPerSec,
   icao_region |-> NoList,
   operator |-> NoList,
   aircraft_type |-> NoList,
   flight_time |-> [on |-> FALSE, min |-> 0, max |-> 0, penalty_per_min |-> 0],
   registration |-> [on |-> FALSE, value |-> <<>>, score_match |-> 0],
   airport |-> NoList,
   weather |-> [on |-> FALSE, v |-> EmptyDict]]

\* filter: icao_region ['E', 'L'], operator ['A', 'B'], aircraft_type ['T1']
ConfFilter ==
  [ConfNone EXCEPT !.icao_region = [on |-> TRUE, v |-> << <<"E">>, <<"L">> >>],
                   !.operator = [on |-> TRUE, v |-> << <<"A">>, <<"B">> >>],
                   !.aircraft_type = [on |-> TRUE, v |-> << <<"T", "1">> >>]]

\* rank: flight_time {min 60, max 180, penalty_per_min 0.5}, registration
\* {value ['DAB'], score_match 3}, airport {'ED': 5}, weather with all eight
\* detectors (gust_per_kt 2, the others 1)
WeatherAll ==
  [k \in {"gust_per_kt", "vis", "rvr", "ceil", "rain", "snow", "tcu", "thunder"} |->
     IF k = "gust_per_kt" THEN Points(2) ELSE Points(1)]

ConfRank ==
  [ConfNone EXCEPT !.flight_time = [on |-> TRUE, min |-> 60, max |-> 180,
                                    penalty_per_min |-> ScoreDen \div 2],
                   !.registration = [on |-> TRUE, value |-> << <<"D", "A", "B">> >>,
                                     score_match |-> Points(3)],
                   !.airport = [on |-> TRUE, v |-> << << <<"E", "D">>, Points(5) >> >>],
                   !.weather = [on |-> TRUE, v |-> WeatherAll]]

\* rank: registration only
ConfRegistration ==
  [ConfNone EXCEPT !.registration = ConfRank.registration]

ConfAll ==
  [ConfRank EXCEPT !.icao_region = ConfFilter.icao_region,
                   !.operator = ConfFilter.operator,
                   !.aircraft_type = ConfFilter.aircraft_type]

Configs == {ConfNone, ConfFilter, ConfRank, ConfRegistration, ConfAll}

\* The instants of a run of Spec: five hours after the epoch, on the hour
\* and half an hour past it.
NowTimes == {5 * Hour * TicksPerSec, 5 * Hour * TicksPerSec + (Hour \div 2) * TicksPerSec}

\* The flights the flight source may know, all last seen in the hour before
\* the run: two of one aircraft, one with null callsign and arrival airport,
\* one with null icao24.
FlightPool ==
  { FlightRecord(<<"a">>, <<"B", "1">>, <<"E", "D">>, <<"L", "O">>, 14600, 17000),
    FlightRecord(<<"a">>, <<"A", "2">>, <<"E", "D">>, <<"E", "D">>, 11000, 17000),
    FlightRecord(<<"b">>, None, <<"L", "O">>, None, 11000, 17100),
    FlightRecord(None, <<"A", "2">>, <<"L", "O">>, <<"E", "D">>, 5000, 17000) }

Worlds == UNION {[1..n -> FlightPool] : n \in 0..MaxFlights}

\* What request_json returns for the metadata source: [] on not-found,
\* else a dict.  A key the dict lacks has the value Absent.
Absent == <<"Absent">>

EmptyList == [type |-> "list", registration |-> Absent, typecode |-> Absent]

AircraftDict(reg, tc) == [type |-> "dict", registration |-> reg, typecode |-> tc]

\* The metadata source's 200 answer: aircraft a has a typecode, b has none.
MetadataSource(icao24) ==
  IF icao24 = <<"a">>
  THEN AircraftDict(<<"d", "-", "a", "b">>, <<"T", "1">>)
  ELSE AircraftDict(<<"X", "1">>, Absent)

\* Raw report texts.  The results of the regular expressions of
\* score_by_weather on them are tabulated in weather_matches.
MetarED == "EDDF 24015G25KT 9999 TCU "

MetarLO == "LOWW 18005KT 4000 R16/P1500 -RA BKN001 "

\* What request_xml returns for the weather source: [] on not-found, else
\* the parsed document, here reduced to the path
\* ['response']['data']['METAR']['raw_text']: whether every key of the path
\* is there, and the text at its end.
XmlList == [type |-> "list", has_raw_text |-> FALSE, raw_text |-> ""]

XmlDict(text) == [type |-> "dict", has_raw_text |-> TRUE, raw_text |-> text]

XmlNoMetar == [type |-> "dict", has_raw_text |-> FALSE, raw_text |-> ""]

\* The weather source's 200 answers for a station: a document with the
\* station's report, or one without a METAR element.
WeatherSource(icao) ==
  { XmlDict(IF icao = <<"E", "D">> THEN MetarED ELSE MetarLO), XmlNoMetar }

\* ------------------------------------------------------------ filters
\* filter_by_region (lines 88-101)
filter_by_region(fl, icao_regions) ==
  LET dep_ok(f) == \E i \in 1..Len(icao_regions) :
                     /\ ~IsNone(f.estDepartureAirport)
                     /\ startswith(f.estDepartureAirport, icao_regions[i])
      arr_ok(f) == \E i \in 1..Len(icao_regions) :
                     /\ ~IsNone(f.estArrivalAirport)
                     /\ startswith(f.estArrivalAirport, icao_regions[i])
      ok(f) == dep_ok(f) /\ arr_ok(f)
  IN  SelectSeq(fl, ok)

\* filter_by_operator (lines 104-116)
filter_by_operator(fl, operators) ==
  LET ok(f) == /\ ~IsNone(f.callsign)
               /\ \E i \in 1..Len(operators) : startswith(f.callsign, operators[i])
  IN  SelectSeq(fl, ok)

\* filter_by_aircraft_type (lines 134-143); `'typecode' in ac` is False
\* for the list [] as for a dict without the key.
filter_by_aircraft_type(fl, ac_map, allowed_types) ==
  LET ok(f) == /\ f.icao24 \in DOMAIN ac_map
               /\ ac_map[f.icao24].typecode # Absent
               /\ in_list(ac_map[f.icao24].typecode, allowed_types)
  IN  SelectSeq(fl, ok)

\* ------------------------------------------------------------ scoring
RECURSIVE sum(_)
sum(q) == IF q = <<>> THEN 0 ELSE q[1] + sum(Tail(q))

HasScore(f) == "score" \in DOMAIN f

\* f['score'] = 0.0 for every f (lines 290-291)
init_scores_skip_last(fl) ==
  [i \in 1..Len(fl) |-> IF i < Len(fl) THEN ("score" :> 0) @@ fl[i] ELSE fl[i]]

init_scores(fl) == [i \in 1..Len(fl) |-> ("score" :> 0) @@ fl[i]]

\* A scoring function is a loop over the flights.  What its body does for
\* one flight is a record [incs |-> the increments of f['score'] it
\* executes, in order, exc |-> the exception that ends it ("none" if
\* none)].  An increment of a flight without 'score' raises KeyError.
turn_exc(f, st) ==
  IF st.incs # <<>> /\ ~HasScore(f) THEN "KeyError" ELSE st.exc

turn_flight(f, st) ==
  IF HasScore(f) THEN [f EXCEPT !.score = @ + sum(st.incs)] ELSE f

\* The loop `for f in flights` of a scoring function whose body does
\* turns[i] for flights[i]: the flights as the loop leaves them and the
\* exception that ended it.
score_loop(fl, turns) ==
  LET bad == {i \in 1..Len(fl) : turn_exc(fl[i], turns[i]) # "none"}
      k == IF bad = {} THEN Len(fl) + 1 ELSE CHOOSE i \in bad : \A j \in bad : i <= j
  IN  [flights |-> [i \in 1..Len(fl) |->
                      IF i <= k THEN turn_flight(fl[i], turns[i]) ELSE fl[i]],
       exc |-> IF bad = {} THEN "none" ELSE turn_exc(fl[k], turns[k])]

\* The penalty of score_by_flight_time for a flight time of secs seconds
\* (lines 154-157): two independent ifs.
flight_time_incs_upper_from_min(secs, min_time, max_time, penalty_per_min) ==
  (IF secs < min_time * 60
   THEN << -((penalty_per_min * (min_time * 60 - secs)) \div 60) >>
   ELSE << >>)
  \o
  (IF secs > max_time * 60
   THEN << -((penalty_per_min * (secs - min_time * 60)) \div 60) >>
   ELSE << >>)

flight_time_incs(secs, min_time, max_time, penalty_per_min) ==
  (IF secs < min_time * 60
   THEN << -((penalty_per_min * (min_time * 60 - secs)) \div 60) >>
   ELSE << >>)
  \o
  (IF secs > max_time * 60
   THEN << -((penalty_per_min * (secs - max_time * 60)) \div 60) >>
   ELSE << >>)

\* score_by_flight_time (lines 146-157)
score_by_flight_time(fl, min_time, max_time, penalty_per_min) ==
  LET turn(f) ==
        [incs |-> flight_time_incs(f.lastSeen - f.firstSeen, min_time, max_time,
                                   penalty_per_min),
         exc |-> "none"]
  IN  score_loop(fl, [i \in 1..Len(fl) |-> turn(fl[i])])

\* score_by_registration (lines 160-168): ac['registration'] of the list []
\* raises TypeError.
score_by_registration(fl, ac_map, registrations, score_match) ==
  LET turn(f) ==
        IF f.icao24 \notin DOMAIN ac_map THEN [incs |-> <<>>, exc |-> "none"]
        ELSE IF ac_map[f.icao24].type = "list" THEN [incs |-> <<>>, exc |-> "TypeError"]
        ELSE IF in_list(normalize_registration(ac_map[f.icao24].registration), registrations)
        THEN [incs |-> <<score_match>>, exc |-> "none"]
        ELSE [incs |-> <<>>, exc |-> "none"]
  IN  score_loop(fl, [i \in 1..Len(fl) |-> turn(fl[i])])

\* The inner loop of score_by_airport for one flight (lines 174-178):
\* None.startswith raises AttributeError.
RECURSIVE airport_steps(_, _, _)
airport_steps(f, airports, incs) ==
  IF airports = <<>> THEN [incs |-> incs, exc |-> "none"]
  ELSE IF IsNone(f.estDepartureAirport) THEN [incs |-> incs, exc |-> "AttributeError"]
  ELSE LET ap == airports[1][1]
           score == airports[1][2]
           i1 == IF startswith(f.estDepartureAirport, ap) THEN Append(incs, score) ELSE incs
       IN  IF IsNone(f.estArrivalAirport) THEN [incs |-> i1, exc |-> "AttributeError"]
           ELSE airport_steps(f, Tail(airports),
                              IF startswith(f.estArrivalAirport, ap)
                              THEN Append(i1, score) ELSE i1)

\* score_by_airport (lines 171-178)
score_by_airport(fl, airports) ==
  LET turn(f) == airport_steps(f, airports, <<>>)
  IN  score_loop(fl, [i \in 1..Len(fl) |-> turn(fl[i])])

\* The results of the eight regular expressions of score_by_weather (lines
\* 226-256) on a report text: gust is <<gust - wind>> when the gust
\* expression matches, ceil the number of cloud groups with a height below
\* 2, each of the others whether the expression matches (vis: and the value
\* is below 9999).
weather_matches(m) ==
  IF m = MetarED
  THEN [gust |-> <<10>>, vis |-> FALSE, rvr |-> FALSE, ceil |-> 0, rain |-> FALSE,
        snow |-> FALSE, tcu |-> TRUE, thunder |-> FALSE]
  ELSE IF m = MetarLO
  THEN [gust |-> <<>>, vis |-> TRUE, rvr |-> TRUE, ceil |-> 1, rain |-> TRUE,
        snow |-> FALSE, tcu |-> FALSE, thunder |-> FALSE]
  ELSE [gust |-> <<>>, vis |-> FALSE, rvr |-> FALSE, ceil |-> 0, rain |-> FALSE,
        snow |-> FALSE, tcu |-> FALSE, thunder |-> FALSE]

\* The increments of score_by_weather for one report text (lines 225-258).
weather_incs(m, weather_score) ==
  LET w == weather_matches(m)
      on(k) == k \in DOMAIN weather_score
      flag(k, hit) == IF on(k) /\ hit THEN <<weather_score[k]>> ELSE <<>>
  IN  (IF on("gust_per_kt") /\ w.gust # <<>>
       THEN <<w.gust[1] * weather_score["gust_per_kt"]>> ELSE <<>>)
      \o flag("vis", w.vis)
      \o flag("rvr", w.rvr)
      \o (IF on("ceil") THEN [i \in 1..w.ceil |-> weather_score["ceil"]] ELSE <<>>)
      \o flag("rain", w.rain)
      \o flag("snow", w.snow)
      \o flag("tcu", w.tcu)
      \o flag("thunder", w.thunder)

\* score_by_weather (lines 221-258): metar[...] of a code that is no key
\* raises KeyError.
score_by_weather(fl, metar_map, weather_score) ==
  LET turn(f) ==
        IF \/ f.estDepartureAirport \notin DOMAIN metar_map
           \/ f.estArrivalAirport \notin DOMAIN metar_map
        THEN [incs |-> <<>>, exc |-> "KeyError"]
        ELSE [incs |-> weather_incs(metar_map[f.estDepartureAirport], weather_score)
                       \o weather_incs(metar_map[f.estArrivalAirport], weather_score),
              exc |-> "none"]
  IN  score_loop(fl, [i \in 1..Len(fl) |-> turn(fl[i])])

\* ------------------------------------------------------------ report
\* The sort key (-fl['score'], fl['callsign']) of a below that of b (line
\* 307); two None callsigns are equal.
key_lt(a, b) ==
  \/ a.score > b.score
  \/ /\ a.score = b.score
     /\ ~IsNone(a.callsign)
     /\ ~IsNone(b.callsign)
     /\ str_lt(a.callsign, b.callsign)

\* The exception of sorted(flights, key=...): KeyError when a flight has no
\* 'score'; TypeError when the sort compares None with a str, which it must
\* do exactly when two flights of equal score have a None and a str
\* callsign (no other comparison tells their order).
sorted_exc(fl) ==
  IF \E i \in 1..Len(fl) : ~HasScore(fl[i]) THEN "KeyError"
  ELSE IF \E i, j \in 1..Len(fl) :
            /\ fl[i].score = fl[j].score
            /\ IsNone(fl[i].callsign)
            /\ ~IsNone(fl[j].callsign)
  THEN "TypeError"
  ELSE "none"

\* x inserted into the sorted list q after the elements not above it.
RECURSIVE insort(_, _)
insort(q, x) ==
  IF q = <<>> THEN <<x>>
  ELSE IF key_lt(x, q[1]) THEN <<x>> \o q
  ELSE <<q[1]>> \o insort(Tail(q), x)

\* sorted(flights, key=...), a stable sort
RECURSIVE sorted(_)
sorted(fl) ==
  IF fl = <<>> THEN <<>>
  ELSE insort(sorted(SubSeq(fl, 1, Len(fl) - 1)), fl[Len(fl)])

\* One turn of the loop at line 307: the line printed for f, or the
\* exception of ac['registration'] or ac['typecode'] (lines 308-322).
print_exc(f, ac_map) ==
  IF f.icao24 \notin DOMAIN ac_map THEN "none"
  ELSE IF ac_map[f.icao24].type = "list" THEN "TypeError"
  ELSE IF ac_map[f.icao24].typecode = Absent THEN "KeyError"
  ELSE "none"

report_line(f, ac_map, metar_map) ==
  LET known == f.icao24 \in DOMAIN ac_map
  IN  [score |-> int_trunc(f.score),
       estDepartureAirport |-> f.estDepartureAirport,
       estArrivalAirport |-> f.estArrivalAirport,
       dep_time_str |-> <<(f.firstSeen \div Hour) % 24, (f.firstSeen \div 60) % 60>>,
       callsign |-> f.callsign,
       registration |-> IF known THEN ac_map[f.icao24].registration ELSE <<"?">>,
       typecode |-> IF known THEN ac_map[f.icao24].typecode ELSE <<"?">>,
       wx_dep |-> IF f.estDepartureAirport \in DOMAIN metar_map
                  THEN metar_map[f.estDepartureAirport] ELSE "?",
       wx_arr |-> IF f.estArrivalAirport \in DOMAIN metar_map
                  THEN metar_map[f.estArrivalAirport] ELSE "?"]

\* ------------------------------------------------------------ SpecFetch
\* The fetcher alone, called MaxCalls times on one cache.

\* The instants a fetcher call is given: on the hour, half a second and
\* half an hour past it.
Offsets == {0, 1, (Hour \div 2) * TicksPerSec}

Instants == {h * Hour * TicksPerSec + o : h \in 0..MaxHours, o \in Offsets}

\* One flight last seen in the middle of each hour.
FetchWorld ==
  [h \in 1..(MaxHours + 1) |->
     FlightRecord(<<"a">>, <<"A", "1">>, <<"E", "D">>, <<"L", "O">>,
                  (h - 1) * Hour, (h - 1) * Hour + (Hour \div 2))]

InitFetch ==
  /\ conf = ConfNone
  /\ world = FetchWorld
  /\ time_now = 0
  /\ begin = 0
  /\ end = 0
  /\ pc = "idle"
  /\ steps = <<>>
  /\ seg = 1
  /\ flights = <<>>
  /\ cache = EmptyDict
  /\ acCache = EmptyDict
  /\ wxCache = EmptyDict
  /\ aircraft = EmptyDict
  /\ ai = 1
  /\ icaos = <<>>
  /\ mi = 1
  /\ metar = EmptyDict
  /\ order = <<>>
  /\ ri = 1
  /\ report = <<>>
  /\ r_status = 0
  /\ tries = 0
  /\ err = "none"
  /\ where = ""
  /\ calls = <<>>
  /\ lookups = <<>>
  /\ written = <<>>
  /\ cache0 = {}
  /\ served = <<>>
  /\ inits = <<>>
  /\ ncalls = 0

\* opensky_get_flights(b, e) is called with b < e, after the previous call
\* returned or raised.
CallFetcher ==
  /\ pc \in {"idle", "fetched", "crashed"}
  /\ ncalls < MaxCalls
  /\ \E b \in Instants, e \in Instants :
       /\ b < e
       /\ EnterFetcher(b, e)
  /\ err' = "none"
  /\ where' = ""
  /\ tries' = 0
  /\ UNCHANGED <<conf, world, time_now, cache, acCache, wxCache, aircraft, ai,
                 icaos, mi, metar, order, ri, report, r_status, lookups,
                 written, inits>>

NextFetch == CallFetcher \/ FetchSegment \/ FlightsResponse

SpecFetch == InitFetch /\ [][NextFetch]_vars

\* ------------------------------------------------------------ Spec
\* One run of flightrecommender.

\* The clock of the cache, in seconds: the time of the run.
cache_time == timestamp_int(time_now)

\* A memoised weather report that has not expired.
metar_memoized(c, icao) == icao \in DOMAIN c /\ c[icao].expire_time > cache_time

\* The caches a run may find: empty, or left by an earlier run (the hour
\* before 5:00, aircraft a, and a report for ED that expires at 5:10).
InitCaches ==
  \/ /\ cache = EmptyDict
     /\ acCache = EmptyDict
     /\ wxCache = EmptyDict
  \/ /\ cache = (4 * Hour :> FlightSource(world, 4 * Hour, 5 * Hour))
     /\ acCache = (<<"a">> :> MetadataSource(<<"a">>))
     /\ wxCache = (<<"E", "D">> :> [val |-> MetarED, expire_time |-> 5 * Hour + 600])

Init ==
  /\ conf \in Configs
  /\ world \in Worlds
  /\ time_now \in NowTimes
  /\ InitCaches
  /\ begin = 0
  /\ end = 0
  /\ pc = "main"
  /\ steps = <<>>
  /\ seg = 1
  /\ flights = <<>>
  /\ aircraft = EmptyDict
  /\ ai = 1
  /\ icaos = <<>>
  /\ mi = 1
  /\ metar = EmptyDict
  /\ order = <<>>
  /\ ri = 1
  /\ report = <<>>
  /\ r_status = 0
  /\ tries = 0
  /\ err = "none"
  /\ where = ""
  /\ calls = <<>>
  /\ lookups = <<>>
  /\ written = <<>>
  /\ cache0 = {}
  /\ served = <<>>
  /\ inits = <<>>
  /\ ncalls = 0

\* flightrecommender up to the loop of opensky_get_flights (lines 262-270,
\* 74-82).
Main ==
  /\ pc = "main"
  /\ EnterFetcher(time_now - conf.interval, time_now)
  /\ UNCHANGED <<conf, world, time_now, cache, acCache, wxCache, aircraft, ai,
                 icaos, mi, metar, order, ri, report, r_status, tries, err, where,
                 lookups, written, inits>>

\* The first filters and the entry of get_aircraft_from_flights (lines
\* 273-279, 126-127).
Filters ==
  /\ pc = "fetched"
  /\ LET f1 == IF conf.icao_region.on
               THEN filter_by_region(flights, conf.icao_region.v) ELSE flights
         f2 == IF conf.operator.on
               THEN filter_by_operator(f1, conf.operator.v) ELSE f1
     IN  flights' = f2
  /\ aircraft' = EmptyDict
  /\ ai' = 1
  /\ pc' = "aircraft"
  /\ UNCHANGED <<conf, world, time_now, begin, end, steps, seg, cache, acCache,
                 wxCache, icaos, mi, metar, order, ri, report, r_status, tries,
                 err, where, calls, lookups, written, cache0, served, inits, ncalls>>

\* One turn of the loop of get_aircraft_from_flights, up to the request of
\* opensky_get_aircraft when its result is not memoised (lines 128-130,
\* 119-122).
GetAircraft ==
  /\ pc = "aircraft"
  /\ ai <= Len(flights)
  /\ LET icao24 == flights[ai].icao24
     IN  IF IsNone(icao24)
         THEN /\ ai' = ai + 1
              /\ UNCHANGED <<aircraft, lookups, calls, tries, pc>>
         ELSE /\ lookups' = Append(lookups, icao24)
              /\ IF icao24 \in DOMAIN acCache
                 THEN /\ aircraft' = DictSet(aircraft, icao24, acCache[icao24])
                      /\ ai' = ai + 1
                      /\ UNCHANGED <<calls, tries, pc>>
                 ELSE /\ calls' = Append(calls, [src |-> "aircraft", arg |-> icao24])
                      /\ tries' = 0
                      /\ pc' = "get_aircraft"
                      /\ UNCHANGED <<aircraft, ai>>
  /\ UNCHANGED <<conf, world, time_now, begin, end, steps, seg, flights, cache,
                 acCache, wxCache, icaos, mi, metar, order, ri, report,
                 r_status, err, where, written, cache0, served, inits, ncalls>>

\* One GET of request_json for the metadata source and, when it returns,
\* the memoisation and the assignment at line 130 (lines 38-48, 119-122).
AircraftResponse ==
  /\ pc = "get_aircraft"
  /\ \E status \in Statuses :
       LET icao24 == flights[ai].icao24
           out == request_json(status)
           v == IF out = "body" THEN MetadataSource(icao24) ELSE EmptyList
       IN  /\ r_status' = status
           /\ tries' = tries + 1
           /\ CASE out = "retry" ->
                     /\ tries < MaxRetries
                     /\ UNCHANGED <<pc, err, where, acCache, aircraft, ai>>
                [] out = "raise" ->
                     /\ Raise("RuntimeError", "request_json")
                     /\ UNCHANGED <<acCache, aircraft, ai>>
                [] OTHER ->
                     /\ acCache' = memoize_store(acCache, icao24, v)
                     /\ aircraft' = DictSet(aircraft, icao24, v)
                     /\ ai' = ai + 1
                     /\ pc' = "aircraft"
                     /\ UNCHANGED <<err, where>>
  /\ UNCHANGED <<conf, world, time_now, begin, end, steps, seg, flights, cache,
                 wxCache, icaos, mi, metar, order, ri, report, calls, lookups,
                 written, cache0, served, inits, ncalls>>

\* The return of get_aircraft_from_flights, the aircraft-type filter and
\* the entry of aviationweather_get_metars (lines 131, 279-287, 214).
Filters2 ==
  /\ pc = "aircraft"
  /\ ai > Len(flights)
  /\ LET f3 == IF conf.aircraft_type.on
               THEN filter_by_aircraft_type(flights, aircraft, conf.aircraft_type.v)
               ELSE flights
     IN  /\ flights' = f3
         /\ icaos' = [i \in 1..Len(f3) |-> f3[i].estDepartureAirport]
                     \o [i \in 1..Len(f3) |-> f3[i].estArrivalAirport]
         /\ inits' = [i \in 1..Len(f3) |-> 0]
  /\ metar' = EmptyDict
  /\ mi' = 1
  /\ pc' = "metar"
  /\ UNCHANGED <<conf, world, time_now, begin, end, steps, seg, cache, acCache,
                 wxCache, aircraft, ai, order, ri, report, r_status, tries, err, where,
                 calls, lookups, written, cache0, served, ncalls>>

\* One turn of the loop of aviationweather_get_metars, up to the request of
\* aviationweather_get_metar when its result is not memoised (lines
\* 215-217, 195-205).
GetMetar ==
  /\ pc = "metar"
  /\ mi <= Len(icaos)
  /\ LET icao == icaos[mi]
     IN  IF icao \in DOMAIN metar
         THEN /\ mi' = mi + 1
              /\ UNCHANGED <<metar, calls, tries, pc>>
         ELSE IF metar_memoized(wxCache, icao)
         THEN /\ metar' = DictSet(metar, icao, wxCache[icao].val)
              /\ mi' = mi + 1
              /\ UNCHANGED <<calls, tries, pc>>
         ELSE /\ calls' = Append(calls, [src |-> "metar", arg |-> icao])
              /\ tries' = 0
              /\ pc' = "get_metar"
              /\ UNCHANGED <<metar, mi>>
  /\ UNCHANGED <<conf, world, time_now, begin, end, steps, seg, flights, cache,
                 acCache, wxCache, aircraft, ai, icaos, order, ri, report,
                 r_status, err, where, lookups, written, cache0, served, inits, ncalls>>

\* metar_xml['response']['data']['METAR']['raw_text'] under `except
\* KeyError` (lines 206-210): a missing key gives '', the list [] raises
\* TypeError, which is not caught.
raw_text(metar_xml) ==
  IF metar_xml.type = "list" THEN [exc |-> "TypeError", metar |-> ""]
  ELSE IF ~metar_xml.has_raw_text THEN [exc |-> "none", metar |-> ""]
  ELSE [exc |-> "none", metar |-> metar_xml.raw_text]

\* One GET of request_xml for the weather source and, when it returns, the
\* rest of aviationweather_get_metar, its memoisation and the assignment at
\* line 217 (lines 182-192, 206-210).
MetarResponse ==
  /\ pc = "get_metar"
  /\ \E status \in Statuses :
       LET icao == icaos[mi]
           out == request_xml(status)
       IN  /\ r_status' = status
           /\ tries' = tries + 1
           /\ CASE out = "retry" ->
                     /\ tries < MaxRetries
                     /\ UNCHANGED <<pc, err, where, wxCache, metar, mi>>
                [] out = "raise" ->
                     /\ Raise("RuntimeError", "request_xml")
                     /\ UNCHANGED <<wxCache, metar, mi>>
                [] OTHER ->
                     \E metar_xml \in (IF out = "body" THEN WeatherSource(icao)
                                                       ELSE {XmlList}) :
                       LET got == raw_text(metar_xml)
                       IN  IF got.exc # "none"
                           THEN /\ Raise(got.exc, "aviationweather_get_metar")
                                /\ UNCHANGED <<wxCache, metar, mi>>
                           ELSE /\ wxCache' = memoize_store_expire(wxCache, icao,
                                      got.metar, cache_time, MetarExpire)
                                /\ metar' = DictSet(metar, icao, got.metar)
                                /\ mi' = mi + 1
                                /\ pc' = "metar"
                                /\ UNCHANGED <<err, where>>
  /\ UNCHANGED <<conf, world, time_now, begin, end, steps, seg, flights, cache,
                 acCache, aircraft, ai, icaos, order, ri, report, calls,
                 lookups, written, cache0, served, inits, ncalls>>

\* What every step of the ranking and the report leaves alone.
RankFrame ==
  UNCHANGED <<conf, world, time_now, begin, end, steps, seg, cache, acCache,
              wxCache, aircraft, ai, icaos, mi, metar, r_status, tries, calls,
              lookups, written, cache0, served, ncalls>>

\* The return of aviationweather_get_metars and the initialisation of the
\* scores (lines 218, 287-291).
InitScores ==
  /\ pc = "metar"
  /\ mi > Len(icaos)
  /\ flights' = init_scores(flights)
  /\ inits' = [i \in 1..Len(flights) |->
                 inits[i] + (IF HasScore(flights'[i]) THEN 1 ELSE 0)]
  /\ pc' = "score_flight_time"
  /\ UNCHANGED <<order, ri, report, err, where>>
  /\ RankFrame

\* A scoring function that is enabled ran with result res; the run goes
\* on at `next` unless it raised.
Scored(res, fn, next) ==
  /\ flights' = res.flights
  /\ IF res.exc = "none" THEN pc' = next /\ UNCHANGED <<err, where>>
                         ELSE Raise(res.exc, fn)

\* line 292-296
ScoreFlightTime ==
  /\ pc = "score_flight_time"
  /\ IF conf.flight_time.on
     THEN Scored(score_by_flight_time(flights, conf.flight_time.min,
                                      conf.flight_time.max,
                                      conf.flight_time.penalty_per_min),
                 "score_by_flight_time", "score_registration")
     ELSE pc' = "score_registration" /\ UNCHANGED <<flights, err, where>>
  /\ UNCHANGED <<order, ri, report, inits>>
  /\ RankFrame

\* lines 297-300
ScoreRegistration ==
  /\ pc = "score_registration"
  /\ IF conf.registration.on
     THEN Scored(score_by_registration(flights, aircraft, conf.registration.value,
                                       conf.registration.score_match),
                 "score_by_registration", "score_airport")
     ELSE pc' = "score_airport" /\ UNCHANGED <<flights, err, where>>
  /\ UNCHANGED <<order, ri, report, inits>>
  /\ RankFrame

\* lines 301-302
ScoreAirport ==
  /\ pc = "score_airport"
  /\ IF conf.airport.on
     THEN Scored(score_by_airport(flights, conf.airport.v), "score_by_airport",
                 "score_weather")
     ELSE pc' = "score_weather" /\ UNCHANGED <<flights, err, where>>
  /\ UNCHANGED <<order, ri, report, inits>>
  /\ RankFrame

\* lines 303-304
ScoreWeather ==
  /\ pc = "score_weather"
  /\ IF conf.weather.on
     THEN Scored(score_by_weather(flights, metar, conf.weather.v),
                 "score_by_weather", "sort")
     ELSE pc' = "sort" /\ UNCHANGED <<flights, err, where>>
  /\ UNCHANGED <<order, ri, report, inits>>
  /\ RankFrame

\* sorted(flights, key=...) (line 307)
Sort ==
  /\ pc = "sort"
  /\ IF sorted_exc(flights) # "none"
     THEN /\ Raise(sorted_exc(flights), "sorted")
          /\ UNCHANGED <<order, ri>>
     ELSE /\ order' = sorted(flights)
          /\ ri' = 1
          /\ pc' = IF flights = <<>> THEN "done" ELSE "print"
          /\ UNCHANGED <<err, where>>
  /\ UNCHANGED <<flights, report, inits>>
  /\ RankFrame

\* One turn of the loop at line 307 (lines 308-322).
PrintLine ==
  /\ pc = "print"
  /\ IF print_exc(order[ri], aircraft) # "none"
     THEN /\ Raise(print_exc(order[ri], aircraft), "flightrecommender")
          /\ UNCHANGED <<report, ri>>
     ELSE /\ report' = Append(report, report_line(order[ri], aircraft, metar))
          /\ ri' = ri + 1
          /\ pc' = IF ri = Len(order) THEN "done" ELSE "print"
          /\ UNCHANGED <<err, where>>
  /\ UNCHANGED <<flights, order, inits>>
  /\ RankFrame

Next ==
  \/ Main
  \/ FetchSegment
  \/ FlightsResponse
  \/ Filters
  \/ GetAircraft
  \/ AircraftResponse
  \/ Filters2
  \/ GetMetar
  \/ MetarResponse
  \/ InitScores
  \/ ScoreFlightTime
  \/ ScoreRegistration
  \/ ScoreAirport
  \/ ScoreWeather
  \/ Sort
  \/ PrintLine

Spec == Init /\ [][Next]_vars

\* ------------------------------------------------------------ fetcher claims
\* A datetime on the hour.
OnTheHour(t) == t % (Hour * TicksPerSec) = 0

\* The hour keys of [b, e), for datetimes b and e on the hour.
HourKeys(b, e) ==
  {h * Hour : h \in (timestamp_int(b) \div Hour)..((timestamp_int(e) \div Hour) - 1)}

\* C1: once a value is stored under an hour key it stays as stored (no
\* write replaces it), a cachable segment that starts at a stored key is
\* served from the cache (its value is appended and no request is issued),
\* and a fetcher call over whole hours that were all stored when it began
\* returns without one flight-source request.
C1_CachedHourNotRefetched ==
  /\ [](( /\ pc = "fetched"
          /\ OnTheHour(begin)
          /\ OnTheHour(end)
          /\ HourKeys(begin, end) \subseteq cache0 ) => calls = <<>>)
  /\ [][ /\ \A k \in DOMAIN cache : k \in DOMAIN cache' /\ cache'[k] = cache[k]
         /\ ( /\ pc = "segment"
              /\ cachable(steps[seg], steps[seg + 1])
              /\ steps[seg] \in DOMAIN cache )
            => ( /\ calls' = calls
                 /\ pc' # "get_flights"
                 /\ flights' = flights \o cache[steps[seg]] ) ]_vars

\* C1's case: a second call over two whole hours, both served from the
\* cache, has returned.
C1_Witness ==
  /\ pc = "fetched"
  /\ ncalls = 2
  /\ OnTheHour(begin)
  /\ OnTheHour(end)
  /\ Len(served) = 2
  /\ calls = <<>>
  /\ Len(flights) = 2

\* The requests cs are a partition of [b, e) in chronological order: they
\* start at b, end at e, each begins where the one before ends, on the
\* hour, and each is non-empty and at most an hour long; when b and e are
\* on the hour each is exactly one hour, so there are (e - b) / 3600.
IsPartition(cs, b, e) ==
  /\ cs # <<>>
  /\ \A i \in 1..Len(cs) : cs[i].src = "flights"
  /\ cs[1].arg[1] = b
  /\ cs[Len(cs)].arg[2] = e
  /\ \A i \in 1..Len(cs) :
       /\ cs[i].arg[1] < cs[i].arg[2]
       /\ cs[i].arg[2] - cs[i].arg[1] <= Hour
  /\ \A i \in 1..(Len(cs) - 1) :
       /\ cs[i].arg[2] = cs[i + 1].arg[1]
       /\ cs[i].arg[2] % Hour = 0
  /\ (b % Hour = 0 /\ e % Hour = 0) =>
       /\ Len(cs) * Hour = e - b
       /\ \A i \in 1..Len(cs) : cs[i].arg[2] - cs[i].arg[1] = Hour

\* C2: a fetcher call with begin < end that found the cache empty and has
\* returned issued requests that partition [begin, end) as IsPartition
\* says.
C2_RequestsPartitionInterval ==
  ( /\ pc = "fetched"
    /\ begin < end
    /\ cache0 = {} )
  => IsPartition(calls, timestamp_int(begin), timestamp_int(end))

\* What does hold of the fetcher: the same, for the calls whose begin and
\* end are not in the same second.
FetcherPartitionsWholeSeconds ==
  ( /\ pc = "fetched"
    /\ timestamp_int(begin) < timestamp_int(end)
    /\ cache0 = {} )
  => IsPartition(calls, timestamp_int(begin), timestamp_int(end))

\* C10: every entry of the segment cache has a key that is a multiple of
\* 3600 and was written with the result of the request for exactly
\* [key, key + 3600), and no write was for an interval with a start or an
\* end off the hour.
C10_CacheEntriesAreWholeHours ==
  /\ \A k \in DOMAIN cache :
       /\ k % Hour = 0
       /\ \E i \in 1..Len(written) :
            written[i] = [key |-> k, begin |-> k, end |-> k + Hour, value |-> cache[k]]
  /\ \A i \in 1..Len(written) :
       /\ written[i].begin % Hour = 0
       /\ written[i].end % Hour = 0

\* What does hold of the cache: the same, with an entry's interval either
\* the hour [key, key + 3600) or the empty interval [key, key).
CacheEntriesAreHoursOrEmpty ==
  /\ \A k \in DOMAIN cache :
       /\ k % Hour = 0
       /\ \E i \in 1..Len(written) :
            /\ written[i].key = k
            /\ written[i].begin = k
            /\ written[i].end \in {k, k + Hour}
            /\ written[i].value = cache[k]
  /\ \A i \in 1..Len(written) :
       /\ written[i].begin % Hour = 0
       /\ written[i].end % Hour = 0

\* ------------------------------------------------------------ SpecScore
\* score_by_flight_time alone, on one flight with its score initialised,
\* for minima, maxima and penalties in either order.

\* Flight times in seconds: every 20 minutes, and half a minute more.
FlightTimes == {k * 1200 + r : k \in 0..(5 * MaxHours), r \in {0, 30}}

ScoreConfigs ==
  { [ConfNone EXCEPT !.flight_time = [on |-> TRUE, min |-> lo, max |-> hi,
                                      penalty_per_min |-> p]] :
      lo \in {0, 60, 180}, hi \in {60, 180}, p \in {ScoreDen \div 2, ScoreDen} }

InitScore ==
  /\ conf \in ScoreConfigs
  /\ \E d \in FlightTimes :
       flights = init_scores(<< FlightRecord(<<"a">>, <<"A", "1">>, <<"E", "D">>,
                                             <<"L", "O">>, Hour, Hour + d) >>)
  /\ world = <<>>
  /\ time_now = 0
  /\ begin = 0
  /\ end = 0
  /\ pc = "score_flight_time"
  /\ steps = <<>>
  /\ seg = 1
  /\ cache = EmptyDict
  /\ acCache = EmptyDict
  /\ wxCache = EmptyDict
  /\ aircraft = EmptyDict
  /\ ai = 1
  /\ icaos = <<>>
  /\ mi = 1
  /\ metar = EmptyDict
  /\ order = <<>>
  /\ ri = 1
  /\ report = <<>>
  /\ r_status = 0
  /\ tries = 0
  /\ err = "none"
  /\ where = ""
  /\ calls = <<>>
  /\ lookups = <<>>
  /\ written = <<>>
  /\ cache0 = {}
  /\ served = <<>>
  /\ inits = <<1>>
  /\ ncalls = 0

NextScore == ScoreFlightTime

SpecScore == InitScore /\ [][NextScore]_vars

\* The flight time of the flight of SpecScore, in seconds, and the two
\* penalties of the claim, in score units: penalty_per_min * (min - d) and
\* penalty_per_min * (d - max) for d in minutes.
FlightSecs == flights[1].lastSeen - flights[1].firstSeen

PenaltyBelow ==
  (conf.flight_time.penalty_per_min * (conf.flight_time.min * 60 - FlightSecs)) \div 60

PenaltyAbove ==
  (conf.flight_time.penalty_per_min * (FlightSecs - conf.flight_time.max * 60)) \div 60

TooShort == FlightSecs < conf.flight_time.min * 60

TooLong == FlightSecs > conf.flight_time.max * 60

\* C8 as claimed: after score_by_flight_time the score is minus the
\* penalty of the one tail the flight time is in, 0 if it is in neither,
\* and for no configuration is it in both.
C8_OneTailPenalty ==
  pc = "score_registration" =>
    /\ ~(TooShort /\ TooLong)
    /\ flights[1].score = IF TooShort THEN -PenaltyBelow
                          ELSE IF TooLong THEN -PenaltyAbove
                          ELSE 0

\* C8 as amended: the score loses the penalty below the minimum when the
\* flight time is below min, and the penalty above the maximum when it is
\* above max; with min <= max it is never in both tails; min 60, max 180,
\* penalty 0.5 and 40 minutes give -10.0.
C8_TailPenalties ==
  pc = "score_registration" =>
    /\ flights[1].score = (IF TooShort THEN -PenaltyBelow ELSE 0)
                          + (IF TooLong THEN -PenaltyAbove ELSE 0)
    /\ conf.flight_time.min <= conf.flight_time.max => ~(TooShort /\ TooLong)
    /\ ( /\ conf.flight_time.min = 60
         /\ conf.flight_time.max = 180
         /\ conf.flight_time.penalty_per_min * 2 = ScoreDen
         /\ FlightSecs = 40 * 60 )
       => flights[1].score = -Points(10)

\* C8's case: the scenario of the claim has been scored.
C8_Witness ==
  /\ pc = "score_registration"
  /\ conf.flight_time.min = 60
  /\ conf.flight_time.max = 180
  /\ conf.flight_time.penalty_per_min * 2 = ScoreDen
  /\ FlightSecs = 40 * 60
  /\ flights[1].score = -Points(10)

\* ------------------------------------------------------------ run claims
\* The positions at which a GET is outstanding.
Requesting == {"get_flights", "get_aircraft", "get_metar"}

\* What a step leaves alone when a request routine only repeats its GET
\* or raises.
RequestFrame ==
  UNCHANGED <<conf, world, time_now, begin, end, steps, seg, flights, cache,
              acCache, wxCache, aircraft, ai, icaos, mi, metar, order, ri,
              report, calls, lookups, written, cache0, served, inits, ncalls>>

RetryFrame == RequestFrame /\ UNCHANGED <<err, where>>

\* The request in progress (the last call of a request routine).
LastCall == calls[Len(calls)]

\* C3: a GET answered 503 only repeats the GET (same request, same
\* position, nothing else changed); 404 makes the routine return the empty
\* result without raising (no flights appended, [] stored for the
\* aircraft); 200 makes it return the body; any other status raises
\* RuntimeError in the routine at once; and after an exception the run
\* takes no further step, so no request follows and, the report being
\* empty when a status is fatal, no line is ever written.
C3_StatusHandling ==
  /\ []((err = "RuntimeError") => (pc = "crashed" /\ report = <<>>))
  /\ [][ /\ pc # "crashed"
         /\ (pc \in Requesting /\ r_status' = 503) =>
              (pc' = pc /\ tries' = tries + 1 /\ RetryFrame)
         /\ (pc \in Requesting /\ r_status' = 404) =>
              /\ err' = "none" \/ where' = "aviationweather_get_metar"
              /\ calls' = calls
              /\ pc = "get_flights" => (flights' = flights /\ pc' \in {"segment", "fetched"})
              /\ pc = "get_aircraft" =>
                   (aircraft'[LastCall.arg] = EmptyList /\ pc' = "aircraft")
         /\ (pc \in Requesting /\ r_status' = 200) =>
              /\ err' = "none"
              /\ calls' = calls
              /\ pc = "get_flights" =>
                   flights' = flights \o FlightSource(world, LastCall.arg[1], LastCall.arg[2])
              /\ pc = "get_aircraft" =>
                   aircraft'[LastCall.arg] = MetadataSource(LastCall.arg)
              /\ pc = "get_metar" =>
                   \E x \in WeatherSource(LastCall.arg) :
                     metar'[LastCall.arg] = x.raw_text
         /\ (pc \in Requesting /\ r_status' \notin {503, 404, 200}) =>
              /\ pc' = "crashed"
              /\ err' = "RuntimeError"
              /\ where' \in {"request_json", "request_xml"}
              /\ tries' = tries + 1
              /\ RequestFrame
              /\ report' = <<>> ]_vars

\* C3's case: a request was answered 503, repeated, and then answered with
\* a fatal status.
C3_Witness ==
  /\ pc = "crashed"
  /\ err = "RuntimeError"
  /\ r_status = 500
  /\ tries = 2
  /\ LastCall.src = "metar"

\* C4: the weather resolver never ends the run, and a code the weather
\* source answered not-found for is mapped to the empty string.
C4_WeatherFailureIsEmptyText ==
  /\ ~(pc = "crashed" /\ where = "aviationweather_get_metar")
  /\ ( /\ pc = "metar"
       /\ calls # <<>>
       /\ LastCall.src = "metar"
       /\ r_status = 404 ) => metar[LastCall.arg] = ""

\* A flight without resolvable metadata: its icao24 is None, or the
\* metadata source answered not-found for it.
Unresolved(f) ==
  \/ IsNone(f.icao24)
  \/ f.icao24 \notin DOMAIN aircraft
  \/ aircraft[f.icao24] = EmptyList

\* The positions after the aircraft-type filter.
AfterFilters ==
  {"metar", "get_metar", "score_flight_time", "score_registration",
   "score_airport", "score_weather", "sort", "print", "done"}

\* C5: a flight without resolvable metadata never makes the run fail: the
\* aircraft-type filter, when enabled, drops it; score_by_registration
\* does not raise and leaves its score as it was; the report loop does not
\* raise and prints '?' for its registration and typecode.
C5_UnknownMetadataNeverFatal ==
  /\ (pc \in AfterFilters /\ conf.aircraft_type.on) =>
       \A i \in 1..Len(flights) : ~Unresolved(flights[i])
  /\ ~(pc = "crashed" /\ where = "score_by_registration")
  /\ (pc = "score_airport" /\ conf = ConfRegistration) =>
       \A i \in 1..Len(flights) : Unresolved(flights[i]) => flights[i].score = 0
  /\ ~(pc = "crashed" /\ where = "flightrecommender" /\ Unresolved(order[ri]))
  /\ \A i \in 1..Len(report) :
       Unresolved(order[i]) =>
         (report[i].registration = <<"?">> /\ report[i].typecode = <<"?">>)

\* The callsigns of the report ascend: no line's callsign is below the
\* callsign of a line before it.
CallsignsAscend(r) ==
  \A i, j \in 1..Len(r) :
    (i < j /\ ~IsNone(r[i].callsign) /\ ~IsNone(r[j].callsign))
      => ~str_lt(r[j].callsign, r[i].callsign)

\* The lines r are one line for each of the flights fl, in some order.
OneLinePerFlight(r, fl) ==
  /\ Len(r) = Len(fl)
  /\ \E p \in [1..Len(fl) -> 1..Len(fl)] :
       /\ \A i, j \in 1..Len(fl) : p[i] = p[j] => i = j
       /\ \A i \in 1..Len(fl) :
            /\ r[i].callsign = fl[p[i]].callsign
            /\ r[i].estDepartureAirport = fl[p[i]].estDepartureAirport
            /\ r[i].estArrivalAirport = fl[p[i]].estArrivalAirport

\* C6: with no optional section in the configuration the run completes
\* with the full fetched set reported.  Stated for the steps that are the
\* claim's own, the sort and the finished report: sorting the flights never
\* raises, and the report of a run that is done has one line for each
\* fetched flight, each with score 0, in ascending order of callsign.
C6_NoSectionsReportsAll ==
  conf = ConfNone =>
    /\ ~(pc = "crashed" /\ where = "sorted")
    /\ pc = "done" =>
         /\ OneLinePerFlight(report, flights)
         /\ \A i \in 1..Len(report) : report[i].score = 0
         /\ CallsignsAscend(report)

\* The calls of request_json for the metadata source.
AircraftCalls == SelectSeq(calls, LAMBDA c : c.src = "aircraft")

\* The resolver has finished: get_aircraft_from_flights is at its return.
ResolverDone == pc = "aircraft" /\ ai > Len(flights)

\* The distinct non-null icao24 of the flight list.
Icao24s == {flights[i].icao24 : i \in 1..Len(flights)} \ {None}

\* C7 as claimed: no icao24 is looked up twice by opensky_get_aircraft,
\* and the map of the finished resolver has one entry for each distinct
\* non-null icao24.
C7_OneLookupPerAircraft ==
  /\ \A i, j \in 1..Len(lookups) : lookups[i] = lookups[j] => i = j
  /\ ResolverDone => DOMAIN aircraft = Icao24s

\* C7 as amended: no icao24 is requested twice from the metadata source;
\* the memoised lookup is made once for each flight with a non-null
\* icao24, each going to the source only when the cache has no result for
\* it; and the map of the finished resolver has one entry for each
\* distinct non-null icao24.
C7_OneRequestPerAircraft ==
  /\ \A i, j \in 1..Len(AircraftCalls) :
       AircraftCalls[i].arg = AircraftCalls[j].arg => i = j
  /\ pc \in {"aircraft", "get_aircraft"} =>
       /\ lookups = SelectSeq([i \in 1..(IF pc = "aircraft" THEN ai - 1 ELSE ai) |->
                                 flights[i].icao24],
                              LAMBDA x : ~IsNone(x))
       /\ \A k \in DOMAIN aircraft : k \in DOMAIN acCache /\ aircraft[k] = acCache[k]
  /\ ResolverDone => DOMAIN aircraft = Icao24s

\* C7's case: two flights of one aircraft were resolved with two lookups
\* and one request, which the source answered not-found.
C7_Witness ==
  /\ ResolverDone
  /\ Len(lookups) = 2
  /\ lookups[1] = lookups[2]
  /\ Len(AircraftCalls) = 1
  /\ aircraft[lookups[1]] = EmptyList

\* The positions of the scoring functions, and the positions before the
\* scores are initialised.
Scoring == {"score_flight_time", "score_registration", "score_airport", "score_weather"}

BeforeScores ==
  {"main", "segment", "get_flights", "fetched", "aircraft", "get_aircraft",
   "metar", "get_metar"}

ScoreFunctions ==
  {"score_by_flight_time", "score_by_registration", "score_by_airport",
   "score_by_weather"}

\* The scoring function at position p is enabled by the configuration.
Enabled(p) ==
  \/ p = "score_flight_time" /\ conf.flight_time.on
  \/ p = "score_registration" /\ conf.registration.on
  \/ p = "score_airport" /\ conf.airport.on
  \/ p = "score_weather" /\ conf.weather.on

\* C9: no flight has a score before the filters are done; from the first
\* scoring function on every flight of the list has a score that was
\* initialised exactly once; no scoring function fails on a flight without
\* a score; the initialisation sets every score to 0; and afterwards a
\* score changes only in a step of a scoring function that is enabled.
C9_ScoreInitialisedOnceBeforeScoring ==
  /\ [](pc \in BeforeScores => \A i \in 1..Len(flights) : ~HasScore(flights[i]))
  /\ []((pc \in Scoring \cup {"sort", "print", "done"} \/ where \in ScoreFunctions) =>
          /\ Len(inits) = Len(flights)
          /\ \A i \in 1..Len(flights) : HasScore(flights[i]) /\ inits[i] = 1)
  /\ [](where \in ScoreFunctions \cup {"sorted"} => err # "KeyError")
  /\ [][ /\ (pc = "metar" /\ pc' = "score_flight_time") =>
              \A i \in 1..Len(flights') : flights'[i].score = 0
         /\ pc \in Scoring \cup {"sort", "print"} =>
              /\ inits' = inits
              /\ Len(flights') = Len(flights)
              /\ (\E i \in 1..Len(flights) : flights'[i] # flights[i]) =>
                   (pc \in Scoring /\ Enabled(pc)) ]_vars

\* C9's case: a run with every scoring function enabled is done and two
\* flights have different scores.
C9_Witness ==
  /\ pc = "done"
  /\ conf = ConfRank
  /\ Len(flights) = 2
  /\ flights[1].score # flights[2].score
  /\ inits = <<1, 1>>

====
